---- MODULE Spec2Model ----
(***************************************************************************)
(* A model of the request/response core of the modio client library:      *)
(*   - Modio::request and the entry points get/post/put/delete (the       *)
(*     dispatcher and the response classifier),                           *)
(*   - Modio::stream (the pagination cursor),                             *)
(*   - Modio::download and Modio::request_file (the download resolver).   *)
(* The remote service and the caller are the environment: responses,      *)
(* page contents and sink behaviour are chosen from small sets.           *)
(***************************************************************************)
EXTENDS Integers, Sequences, FiniteSets, TLC

VARIABLES
    overflowChecks,  \* build profile: TRUE = arithmetic overflow panics (debug)
    rpc,             \* dispatcher call: "idle" | "sent" | "done"
    reqMethod,       \* method of the call in flight
    reqResp,         \* Some(response) once the exchange has completed
    reqEnvelope,     \* Some(envelope) when the error body was decoded as one
    reqOutcome,      \* Some(result) of the finished call
    host,            \* the client's host: the string every path is appended to
    agent,           \* the client's user agent
    credentials,     \* the client's credentials: [kind, secret]
    reqUri,          \* the uri handed to request(): host + path, and its query
    reqSent,         \* Some(request) once the call has sent its HTTP request
    srvTotal,        \* the service's listing holds the items 1..srvTotal
    spc,             \* stream: "new" | "first" | "ready" | "fetching" | "done"
                     \*         | "failed" | "panicked"
    sReqUrl,         \* query of the page request in flight
    sUri,            \* State.uri: query of the last page request, as sent
    sItems,          \* State.items: the buffer, last element first out
    sOffset,         \* State.offset
    sLimit,          \* State.limit
    sCount,          \* State.count: the remaining-count
    firstPage,       \* Some([offset, limit, total]) of the first page
    lastPage,        \* Some([offset, limit, total]) of the latest later page
    fetches,         \* the queries of the page requests issued, in order
    yielded,         \* the items the stream has yielded, in order
    sError,          \* Some(error) the stream has surfaced
    dpc,             \* download: "new" | "resolving" | "get" | "body" | "done"
                     \*           | "failed" | "cancelled"
    dAction,         \* the DownloadAction
    srvFiles,        \* Some(files): the files of the mod that match the version
                     \* asked for, once the listing has been served
    dMeta,           \* the metadata requests issued through the dispatcher
    dFetched,        \* Some(result) of the metadata request, once it has completed
    dGets,           \* the URLs of the streaming GETs issued, in order
    dHeaders,        \* the headers of the streaming GETs issued, in order
    dStatus,         \* Some(status) of the terminal response
    dLocation,       \* Some(kind) of the Location header the code looked for on
                     \* the terminal response: it looks only on a 301/302/307
    dBodyAll,        \* the chunks of the terminal response's body
    dBody,           \* the chunks of it still to arrive
    dLen,            \* the fold's running byte count
    dRedirect,       \* Some([status, body_len, hop, location]) of the last
                     \* redirect response with a readable Location
    sink,            \* the bytes this download has written to the sink
    sinkOwner,       \* "caller" | "download" | "dropped"
    dResult          \* Some(result) of the download

\* The fields of Modio that are configuration (the transport aside).
clientVars == <<host, agent, credentials>>

reqVars == <<rpc, reqMethod, reqUri, reqSent, reqResp, reqEnvelope, reqOutcome>>

cursorVars == <<sUri, sItems, sOffset, sLimit, sCount>>

streamVars ==
    <<srvTotal, spc, sReqUrl, cursorVars, firstPage, lastPage, fetches, yielded,
      sError>>

downloadVars ==
    <<dpc, dAction, srvFiles, dMeta, dFetched, dGets, dHeaders, dStatus, dLocation, dBodyAll,
      dBody, dLen, dRedirect, sink, sinkOwner, dResult>>

vars == <<overflowChecks, clientVars, reqVars, streamVars, downloadVars>>

(***************************************************************************)
(* Option values: None is the empty set, Some(x) the singleton.            *)
(***************************************************************************)
None == {}

Some(x) == {x}

The(o) == CHOOSE x \in o : TRUE

(***************************************************************************)
(* u64 arithmetic.  A u64 is four 16-bit limbs, least significant first,   *)
(* so that products beyond 2^31 stay exact.                                *)
(***************************************************************************)
LimbBase == 2 ^ 16

U64(n) == <<n % LimbBase, n \div LimbBase, 0, 0>>

U64Max == <<LimbBase - 1, LimbBase - 1, LimbBase - 1, LimbBase - 1>>

\* floor((2^64 - 1) / 60): the largest number of minutes whose seconds fit a u64.
MaxMinutesFitting == <<17476, 17476, 17476, 1092>>

MinMinutesOverflowing == <<17477, 17476, 17476, 1092>>

\* The exact product x * k as limbs and the carry out of the top limb.
MulWide(x, k) ==
    LET p1 == x[1] * k
        p2 == x[2] * k + (p1 \div LimbBase)
        p3 == x[3] * k + (p2 \div LimbBase)
        p4 == x[4] * k + (p3 \div LimbBase)
    IN  [limbs |-> <<p1 % LimbBase, p2 % LimbBase, p3 % LimbBase, p4 % LimbBase>>,
         carry |-> p4 \div LimbBase]

SecondsPerMinute == 60

(***************************************************************************)
(* Responses of the service.                                               *)
(***************************************************************************)
MaxSmallHeader == 5

\* A rate-limit header as sent: absent, not an integer, or a u64 in decimal.
HeaderAbsent == [present |-> FALSE, integer |-> FALSE, value |-> U64(0)]

HeaderGarbage == [present |-> TRUE, integer |-> FALSE, value |-> U64(0)]

HeaderInt(v) == [present |-> TRUE, integer |-> TRUE, value |-> v]

RemainingHeaders ==
    {HeaderAbsent, HeaderGarbage} \cup {HeaderInt(U64(n)) : n \in 0..1}

RetryAfterHeaders ==
    {HeaderAbsent, HeaderGarbage}
        \cup {HeaderInt(U64(n)) : n \in 0..MaxSmallHeader}
        \cup {HeaderInt(MaxMinutesFitting), HeaderInt(MinMinutesOverflowing),
              HeaderInt(U64Max)}

TermsRef == 11051

ErrorRefs == {0, TermsRef - 1, TermsRef, TermsRef + 1}

NoEnvelope == [message |-> "", errors |-> <<>>, error_ref |-> 0]

Envelopes ==
    [message : {"msg"}, errors : {<<>>, << <<"name", "required">> >>},
     error_ref : ErrorRefs]

\* Bodies: "entity" is JSON of the type the caller expects, "null" the JSON null,
\* "empty" no bytes, "text" bytes that are no JSON, "envelope" an error envelope.
Bodies ==
    {[kind |-> k, envelope |-> NoEnvelope] : k \in {"entity", "null", "empty", "text"}}
        \cup {[kind |-> "envelope", envelope |-> e] : e \in Envelopes}

Statuses == {200, 204, 401, 403, 404, 422, 429, 500}

Responses ==
    [status : Statuses, remaining : RemainingHeaders, retry_after : RetryAfterHeaders,
     body : Bodies]

Methods == {"GET", "POST", "PUT", "DELETE"}

(***************************************************************************)
(* Errors (the kinds of error.rs) and results.                             *)
(***************************************************************************)
Error(kind) ==
    [ok |-> FALSE, kind |-> kind, status |-> None, error_ref |-> None,
     retry_after |-> None, message |-> "", errors |-> <<>>, source |-> None,
     value |-> None]

\* Mutant: the error_ref is not attached.
with_error_ref_dropped(e, error_ref) == e

\* Error::with_error_ref
with_error_ref(e, error_ref) == [e EXCEPT !.error_ref = Some(error_ref)]

\* Error::with
with(e, source) == [e EXCEPT !.source = Some(source)]

Ok(v) ==
    [ok |-> TRUE, kind |-> "Ok", status |-> None, error_ref |-> None,
     retry_after |-> None, message |-> "", errors |-> <<>>, source |-> None,
     value |-> Some(v)]

\* A Rust panic (the calling thread unwinds), kept as a result so that it is visible.
Panic == Error("Panic")

unauthorized(error_ref) ==
    with(with_error_ref(Error("Unauthorized"), error_ref), "Unauthorized")

terms_required ==
    with(Error("TermsAcceptanceRequired"), "TermsAcceptanceRequired")

decode == with(Error("Decode"), "serde_json")

request_error == with(Error("Request"), "transport")

builder(source) == with(Error("Builder"), source)

validation(error) ==
    with_error_ref(
        [Error("Validation") EXCEPT !.message = error.message,
                                    !.errors = error.errors],
        error.error_ref)

status_error(status, error) ==
    with(with_error_ref([Error("Status") EXCEPT !.status = Some(status)],
                        error.error_ref),
         error)

\* Mutant: 401 falls through to the generic status error.
error_for_status_no_401(status, error) ==
    CASE status = 422 -> validation(error)
      [] status = 403 /\ error.error_ref = TermsRef -> terms_required
      [] OTHER -> status_error(status, error)

\* Mutant: every 403 asks for the terms, whatever its error_ref.
error_for_status_any_403(status, error) ==
    CASE status = 422 -> validation(error)
      [] status = 401 -> unauthorized(error.error_ref)
      [] status = 403 -> terms_required
      [] OTHER -> status_error(status, error)

error_for_status(status, error) ==
    CASE status = 422 -> validation(error)
      [] status = 401 -> unauthorized(error.error_ref)
      [] status = 403 /\ error.error_ref = TermsRef -> terms_required
      [] OTHER -> status_error(status, error)

ratelimit(retry_after) ==
    [Error("RateLimit") EXCEPT !.retry_after = Some(retry_after)]

(***************************************************************************)
(* Modio::request, from the response on.                                   *)
(***************************************************************************)
\* headers().get(..).and_then(to_str).and_then(parse::<u64>)
ParseHeader(h) == IF h.present /\ h.integer THEN Some(h.value) ELSE None

is_success(status) == status >= 200 /\ status < 300

\* serde_json::from_slice::<Out>: the unit type decodes from null alone.
DecodesAs(out, body) ==
    IF out = "unit" THEN body.kind = "null" ELSE body.kind = "entity"

\* reset * 60 in u64: a panic with overflow checks, the wrapped product without.
RateLimitOf(reset, checks) ==
    LET p == MulWide(reset, SecondsPerMinute)
    IN  IF p.carry > 0 /\ checks THEN Panic ELSE ratelimit(p.limbs)

\* Mutant: any parsed remaining-request-count takes the rate-limit arm.
RateLimited_any_remaining(remaining, reset) == remaining # None /\ reset # None

RateLimited(remaining, reset) ==
    remaining # None /\ reset # None /\ The(remaining) = U64(0)

Classify(out, resp, checks) ==
    LET remaining == ParseHeader(resp.remaining)
        reset == ParseHeader(resp.retry_after)
    IN  IF is_success(resp.status)
        THEN IF DecodesAs(out, resp.body) THEN Ok(resp.body.kind) ELSE decode
        ELSE IF RateLimited(remaining, reset)
             THEN RateLimitOf(The(reset), checks)
             ELSE IF resp.body.kind = "envelope"
                  THEN error_for_status(resp.status, resp.body.envelope)
                  ELSE decode

\* The envelope the dispatcher decodes: the body of a non-2xx response is read as
\* one only when the rate-limit arm is not taken.
DecodedEnvelope(resp) ==
    IF /\ ~is_success(resp.status)
       /\ ~RateLimited(ParseHeader(resp.remaining), ParseHeader(resp.retry_after))
       /\ resp.body.kind = "envelope"
    THEN Some(resp.body.envelope)
    ELSE None

\* The type each entry point asks for: delete asks for the unit type.
OutOf(method) == IF method = "DELETE" THEN "unit" ELSE "entity"

\* Mutant: delete turns every error into success.
delete_or_else_any(result) == IF ~result.ok THEN Ok("unit") ELSE result

\* Modio::delete: a decode error becomes success.
delete_or_else(result) ==
    IF ~result.ok /\ result.kind = "Decode" THEN Ok("unit") ELSE result

\* get / post / put / delete on top of request_entity.
Entry(method, resp, checks) ==
    IF method = "DELETE"
    THEN delete_or_else(Classify(OutOf(method), resp, checks))
    ELSE Classify(OutOf(method), resp, checks)

(***************************************************************************)
(* URLs.  Only the query matters here: a sequence of <<key, value>> pairs  *)
(* of strings, in the order they stand in the URL.                         *)
(***************************************************************************)
Credentials == {[kind |-> "ApiKey", secret |-> "key"], [kind |-> "Token", secret |-> "tok"]}

\* The keys that occur, in the byte order a BTreeMap<String, _> iterates in.
KeyOrder == <<"_limit", "_offset", "api_key", "name">>

MaxOffset == 2

MaxLimit == 3

MaxTotal == 5

\* u32::to_string and its inverse on the service's side.
MaxDecimal == MaxOffset + MaxTotal + 2 * MaxLimit + 2

ParseDecimal(str) == CHOOSE n \in 0..MaxDecimal : ToString(n) = str

Keys(query) == {query[i][1] : i \in 1..Len(query)}

\* The value a map built by inserting the pairs in order holds for key.
LastValue(query, key) ==
    LET at == {i \in 1..Len(query) : query[i][1] = key}
    IN  query[CHOOSE i \in at : \A j \in at : j <= i][2]

\* Mutant: the _offset of the next page is the cursor's offset, not offset + limit.
NextQuery_same_offset(query, offset, limit) ==
    LET keys == Keys(query) \cup {"_offset"}
        kept == SelectSeq(KeyOrder, LAMBDA k : k \in keys)
    IN  [i \in 1..Len(kept) |->
            IF kept[i] = "_offset" THEN <<"_offset", ToString(offset)>>
            ELSE <<kept[i], LastValue(query, kept[i])>>]

\* Mutant: the rebuilt query holds the new _offset and nothing else.
NextQuery_only_offset(query, offset, limit) ==
    << <<"_offset", ToString(offset + limit)>> >>

\* stream's rebuild of the query: the pairs go through a BTreeMap, _offset is
\* overwritten with offset + limit, the pairs are written back in key order.
NextQuery(query, offset, limit) ==
    LET keys == Keys(query) \cup {"_offset"}
        kept == SelectSeq(KeyOrder, LAMBDA k : k \in keys)
    IN  [i \in 1..Len(kept) |->
            IF kept[i] = "_offset" THEN <<"_offset", ToString(offset + limit)>>
            ELSE <<kept[i], LastValue(query, kept[i])>>]

\* request's credential injection into the URL: append_pair("api_key", ..).
WithApiKey(query, creds) ==
    IF creds.kind = "ApiKey" THEN Append(query, <<"api_key", creds.secret>>)
    ELSE query

\* The hosts a client may be built with: host is any string, and one without a
\* scheme makes every uri built from it a relative reference.
Hosts ==
    {[scheme |-> "https", authority |-> "api.mod.io"],
     [scheme |-> "", authority |-> "api.mod.io"]}

Agents == {"agent/1.0"}

\* self: the client a call is made on.
Client == [host |-> host, agent |-> agent, credentials |-> credentials]

\* self.host.clone() + uri: the string the entry points hand to request().
HostUri(self, query) == [host |-> self.host, query |-> query]

\* Mutant: every uri parses.
UrlParses_always(uri) == TRUE

\* Url::parse succeeds on an absolute URL and fails on a relative reference.
UrlParses(uri) == uri.host.scheme # ""

\* The queries of the uris handed to request(): none, a filter, and the URL of
\* an earlier request of the same client handed back (as stream does), which
\* under an ApiKey holds the api_key pair already.
RequestQueries(self) ==
    {<<>>, << <<"name", "x">> >>, WithApiKey(<< <<"_offset", "2">> >>, self.credentials)}

\* Mutant: the Authorization header is set under either kind of credentials.
SentRequest_always_bearer(self, method, uri) ==
    [method |-> method,
     url |-> [host |-> uri.host, query |-> WithApiKey(uri.query, self.credentials)],
     headers |-> [user_agent |-> Some(self.agent),
                  authorization |-> Some(<<"Bearer", self.credentials.secret>>)]]

\* The request that request() sends for a uri that parses: the api_key pair is
\* appended for an ApiKey, the Authorization header is set for a Token, the
\* user agent is always set.
SentRequest(self, method, uri) ==
    [method |-> method,
     url |-> [host |-> uri.host, query |-> WithApiKey(uri.query, self.credentials)],
     headers |-> [user_agent |-> Some(self.agent),
                  authorization |->
                      IF self.credentials.kind = "Token"
                      THEN Some(<<"Bearer", self.credentials.secret>>)
                      ELSE None]]

(***************************************************************************)
(* The service's listing endpoint: the items 1..srvTotal, served in pages. *)
(***************************************************************************)
SrvDefaultLimit == 2

Min(a, b) == IF a < b THEN a ELSE b

Reverse(seq) == [i \in 1..Len(seq) |-> seq[Len(seq) + 1 - i]]

ServerPage(query, total) ==
    LET offset == IF "_offset" \in Keys(query)
                  THEN ParseDecimal(LastValue(query, "_offset")) ELSE 0
        limit == IF "_limit" \in Keys(query)
                 THEN ParseDecimal(LastValue(query, "_limit")) ELSE SrvDefaultLimit
        last == Min(offset + limit, total)
    IN  [data |-> [i \in 1..(IF last > offset THEN last - offset ELSE 0) |-> offset + i],
         offset |-> offset, limit |-> limit, total |-> total]

\* A service that is free in what it answers: a page is any JSON that decodes
\* as a List, so its items and its three fields are unrelated to the request
\* and to one another.
MaxPageLen == 2

MaxPageField == 2

MaxPageFetches == 2

AnyPages ==
    [data : {[i \in 1..n |-> i] : n \in 0..MaxPageLen}, offset : {0, MaxPageField},
     limit : {0, MaxPageField}, total : {0, MaxPageField}]

\* The queries a caller of stream may start from.
CallerQueries ==
    LET limits == {<<>>} \cup {<< <<"_limit", ToString(l)>> >> : l \in 0..MaxLimit}
        offsets == {<<>>} \cup {<< <<"_offset", ToString(o)>> >> : o \in 1..MaxOffset}
        filters == {<<>>, << <<"name", "x">> >>}
    IN  {f \o o \o l : f \in filters, o \in offsets, l \in limits}

\* Responses with which a page request fails.
FailingResponses ==
    {r \in Responses :
        /\ r.status \in {401, 404, 500}
        /\ r.remaining \in {HeaderAbsent, HeaderInt(U64(0))}
        /\ r.retry_after \in {HeaderAbsent, HeaderInt(U64(1))}
        /\ r.body.kind \in {"text", "envelope"}
        /\ r.body.envelope.error_ref = 0
        /\ r.body.envelope.errors = <<>>}

FetchErrors(checks) ==
    {Classify("entity", r, checks) : r \in FailingResponses} \cup {request_error}

(***************************************************************************)
(* Modio::stream.  State.count is a u32: it is kept here as a               *)
(* representative modulo 2^32, so -1 stands for the wrapped 2^32 - 1.      *)
(***************************************************************************)
CursorIdle ==
    /\ spc = "new"
    /\ sReqUrl = <<>>
    /\ sUri = <<>>
    /\ sItems = <<>>
    /\ sOffset = 0
    /\ sLimit = 0
    /\ sCount = 0
    /\ firstPage = None
    /\ lastPage = None
    /\ fetches = <<>>
    /\ yielded = <<>>
    /\ sError = None

StreamIdle == srvTotal = 0 /\ CursorIdle

\* What no step of a stream touches: the client and the other calls.
StreamFrame == UNCHANGED <<overflowChecks, clientVars, reqVars, downloadVars>>

\* stream(uri): the first page is requested through request().
StreamOpenOn(queries) ==
    /\ StreamFrame
    /\ spc = "new"
    /\ \E q \in queries :
          LET url == WithApiKey(q, credentials)
          IN  /\ UrlParses(HostUri(Client, q))
              /\ sReqUrl' = url
              /\ fetches' = Append(fetches, url)
    /\ spc' = "first"
    /\ UNCHANGED <<srvTotal, cursorVars, firstPage, lastPage, yielded, sError>>

StreamOpen == StreamOpenOn(CallerQueries)

\* stream(uri) on a client whose host makes no URL: request() ends with the
\* parse error, which is the stream's only element; nothing is sent.
StreamOpenFails ==
    /\ StreamFrame
    /\ spc = "new"
    /\ \E q \in CallerQueries : ~UrlParses(HostUri(Client, q))
    /\ sError' = Some(builder("url::ParseError"))
    /\ spc' = "failed"
    /\ UNCHANGED <<srvTotal, sReqUrl, cursorVars, firstPage, lastPage, fetches, yielded>>

\* The cursor built from the first page.
FirstState(url, list) ==
    [uri |-> url, items |-> Reverse(list.data), offset |-> list.offset,
     limit |-> list.limit, count |-> list.total]

SetCursor(st) ==
    /\ sUri' = st.uri
    /\ sItems' = st.items
    /\ sOffset' = st.offset
    /\ sLimit' = st.limit
    /\ sCount' = st.count

\* The first page decoded as list: the stream starts on the cursor built from it.
FirstPageFrom(list) ==
    /\ StreamFrame
    /\ spc = "first"
    /\ SetCursor(FirstState(sReqUrl, list))
    /\ firstPage' = Some([offset |-> list.offset, limit |-> list.limit,
                           total |-> list.total])
    /\ spc' = "ready"
    /\ UNCHANGED <<srvTotal, sReqUrl, lastPage, fetches, yielded, sError>>

FirstPageArrives == FirstPageFrom(ServerPage(sReqUrl, srvTotal))

\* The first page of a service that answers with any page.
AnyFirstPage == \E list \in AnyPages : FirstPageFrom(list)

\* Mutant: a failed page request is reported and issued again.
FetchFails_retry ==
    /\ StreamFrame
    /\ spc \in {"first", "fetching"}
    /\ sError = None
    /\ \E e \in FetchErrors(overflowChecks) : sError' = Some(e)
    /\ fetches' = Append(fetches, sReqUrl)
    /\ UNCHANGED <<srvTotal, spc, sReqUrl, cursorVars, firstPage, lastPage, yielded>>

\* A failed page request, the first or a later one: the error is the stream's
\* next element and its last.
FetchFails ==
    /\ StreamFrame
    /\ spc \in {"first", "fetching"}
    /\ \E e \in FetchErrors(overflowChecks) : sError' = Some(e)
    /\ spc' = "failed"
    /\ UNCHANGED <<srvTotal, sReqUrl, cursorVars, firstPage, lastPage, fetches, yielded>>

\* A pull with an item in the buffer: items.pop(), count -= 1.
PullPop ==
    /\ StreamFrame
    /\ spc = "ready"
    /\ sItems # <<>>
    /\ IF sCount = 0 /\ overflowChecks
       THEN /\ spc' = "panicked"
            /\ UNCHANGED <<cursorVars, yielded>>
       ELSE /\ sItems' = SubSeq(sItems, 1, Len(sItems) - 1)
            /\ sCount' = sCount - 1
            /\ yielded' = Append(yielded, sItems[Len(sItems)])
            /\ UNCHANGED <<spc, sUri, sOffset, sLimit>>
    /\ UNCHANGED <<srvTotal, sReqUrl, firstPage, lastPage, fetches, sError>>

\* Mutant: the next page is requested whenever the buffer is empty.
PullFetch_unguarded ==
    /\ StreamFrame
    /\ spc = "ready"
    /\ sItems = <<>>
    /\ Len(fetches) <= MaxTotal
    /\ LET url == WithApiKey(NextQuery(sUri, sOffset, sLimit), credentials)
       IN  /\ sReqUrl' = url
           /\ fetches' = Append(fetches, url)
    /\ spc' = "fetching"
    /\ UNCHANGED <<srvTotal, cursorVars, firstPage, lastPage, yielded, sError>>

\* Mutant: the next page is requested while the buffer still holds items.
PullFetch_prefetch ==
    /\ StreamFrame
    /\ spc = "ready"
    /\ sCount # 0
    /\ LET url == WithApiKey(NextQuery(sUri, sOffset, sLimit), credentials)
       IN  /\ sReqUrl' = url
           /\ fetches' = Append(fetches, url)
    /\ spc' = "fetching"
    /\ UNCHANGED <<srvTotal, cursorVars, firstPage, lastPage, yielded, sError>>

\* A pull with an empty buffer and count > 0: the next page is requested.
PullFetch ==
    /\ StreamFrame
    /\ spc = "ready"
    /\ sItems = <<>>
    /\ sCount # 0
    /\ LET url == WithApiKey(NextQuery(sUri, sOffset, sLimit), credentials)
       IN  /\ sReqUrl' = url
           /\ fetches' = Append(fetches, url)
    /\ spc' = "fetching"
    /\ UNCHANGED <<srvTotal, cursorVars, firstPage, lastPage, yielded, sError>>

\* The next page arrives: its first item is yielded, the rest is buffered.
\* The cursor as one value.
Cursor ==
    [uri |-> sUri, items |-> sItems, offset |-> sOffset, limit |-> sLimit,
     count |-> sCount]

\* Mutant: the remaining-count is taken again from every page.
NextState_recount(state, url, list) ==
    [uri |-> url, items |-> Reverse(Tail(list.data)), offset |-> state.offset + state.limit,
     limit |-> state.limit, count |-> list.total - 1]

\* The cursor built from a later page that holds an item: the first item is
\* taken out to be yielded, the rest is buffered.
NextState(state, url, list) ==
    [uri |-> url, items |-> Reverse(Tail(list.data)), offset |-> state.offset + state.limit,
     limit |-> state.limit, count |-> state.count - 1]

\* A later page decoded as list: items.remove(0) panics on a page without items.
NextPageFrom(list) ==
    /\ StreamFrame
    /\ spc = "fetching"
    /\ lastPage' = Some([offset |-> list.offset, limit |-> list.limit,
                          total |-> list.total])
    /\ IF list.data = <<>>
       THEN /\ spc' = "panicked"
            /\ UNCHANGED <<cursorVars, yielded>>
       ELSE /\ SetCursor(NextState(Cursor, sReqUrl, list))
            /\ yielded' = Append(yielded, Head(list.data))
            /\ spc' = "ready"
    /\ UNCHANGED <<srvTotal, sReqUrl, firstPage, fetches, sError>>

NextPageArrives == NextPageFrom(ServerPage(sReqUrl, srvTotal))

\* A later page of a service that answers with any page; the service stops
\* answering with pages after MaxPageFetches requests.
AnyNextPage ==
    /\ Len(fetches) <= MaxPageFetches
    /\ \E list \in AnyPages : NextPageFrom(list)

\* A pull with an empty buffer and count = 0: the sequence ends.
PullEnd ==
    /\ StreamFrame
    /\ spc = "ready"
    /\ sItems = <<>>
    /\ sCount = 0
    /\ spc' = "done"
    /\ UNCHANGED <<srvTotal, sReqUrl, cursorVars, firstPage, lastPage, fetches, yielded,
                   sError>>

StreamNext ==
    \/ StreamOpen
    \/ StreamOpenFails
    \/ FirstPageArrives
    \/ FetchFails
    \/ PullPop
    \/ PullFetch
    \/ NextPageArrives
    \/ PullEnd


(***************************************************************************)
(* The service's files and binary URLs.                                    *)
(***************************************************************************)
MaxFiles == 3

FileIds == 1..MaxFiles

\* date_added of file f: the ids rotated, so that id order is not date order
\* (with three files: file 1 is the newest, then file 3, then file 2).
DateAdded(f) == (f + 1) % MaxFiles

\* Binary URLs are pre-signed: the signature is in the query.
BinaryUrl(f) == [site |-> "cdn", id |-> f, query |-> << <<"verify", "sig">> >>]

MirrorUrl(n) == [site |-> "mirror", id |-> n, query |-> <<>>]

RawUrl == [site |-> "raw", id |-> 0, query |-> <<>>]

\* The Location header of a response: absent, bytes that are no visible ASCII
\* (to_str fails), a relative reference (Url::parse fails) or an absolute URL.
Locations(hop) ==
    {[kind |-> k, url |-> RawUrl] : k \in {"absent", "unreadable", "relative"}}
        \cup {[kind |-> "absolute", url |-> MirrorUrl(hop)]}

MaxChunks == 2

MaxChunkLen == 2

MaxHops == 2

RECURSIVE Sum(_)
Sum(lens) == IF lens = <<>> THEN 0 ELSE Head(lens) + Sum(Tail(lens))

\* Chunks of one byte and chunks of MaxChunkLen bytes, in any order.
ChunkLens == UNION {[1..n -> {1, MaxChunkLen}] : n \in 0..MaxChunks}

\* A body of the given chunk lengths: its bytes are numbered 1, 2, ... in order.
ChunksOf(lens) ==
    [i \in 1..Len(lens) |->
        [j \in 1..lens[i] |-> Sum(SubSeq(lens, 1, i - 1)) + j]]

StreamBodies == {ChunksOf(lens) : lens \in ChunkLens}

RECURSIVE Flatten(_)
Flatten(chunks) ==
    IF chunks = <<>> THEN <<>> ELSE Head(chunks) \o Flatten(Tail(chunks))

\* The bodies a redirect response comes with: none, or one short chunk.
RedirectBodies == {b \in StreamBodies : Len(Flatten(b)) <= 1}

DlStatuses == {200, 301, 302, 307, 404}

(***************************************************************************)
(* Modio::download: the resolution of a DownloadAction.                    *)
(***************************************************************************)
DownloadActions ==
    [kind : {"Primary", "File", "Url"}, game_id : {5}, mod_id : {19},
     file_id : {1}, policy : {"Latest"}]
        \cup [kind : {"Version"}, game_id : {5}, mod_id : {19}, file_id : {1},
              policy : {"Latest", "Fail"}]

download_error(source) == with(Error("Download"), source)

download_no_primary(game_id, mod_id) ==
    download_error([reason |-> "NoPrimaryFile", game_id |-> game_id,
                    mod_id |-> mod_id, file_id |-> 0])

download_file_not_found(game_id, mod_id, file_id) ==
    download_error([reason |-> "FileNotFound", game_id |-> game_id,
                    mod_id |-> mod_id, file_id |-> file_id])

download_version_not_found(game_id, mod_id) ==
    download_error([reason |-> "VersionNotFound", game_id |-> game_id,
                    mod_id |-> mod_id, file_id |-> 0])

download_multiple_files(game_id, mod_id) ==
    download_error([reason |-> "MultipleFilesFound", game_id |-> game_id,
                    mod_id |-> mod_id, file_id |-> 0])

\* The FileListOptions of a Version action: version equal to the one asked for,
\* sorted by date_added descending, limit 2.
VersionOptions ==
    [version |-> "equals", sort |-> "date_added", order |-> "desc", limit |-> 2]

\* The files in files sorted by date: newest first when order is "desc".
RECURSIVE SortByDate(_, _)
SortByDate(files, order) ==
    IF files = {} THEN <<>>
    ELSE LET first == CHOOSE f \in files : \A g \in files :
                          IF order = "desc"
                          THEN DateAdded(g) <= DateAdded(f)
                          ELSE DateAdded(f) <= DateAdded(g)
         IN  <<first>> \o SortByDate(files \ {first}, order)

\* The service's answer to a file listing: the matching files in the order and
\* up to the limit asked for; count is the number of files returned.
ServerFileList(opts, files) ==
    LET sorted == SortByDate(files, opts.order)
        data == SubSeq(sorted, 1, Min(opts.limit, Len(sorted)))
    IN  [data |-> data, count |-> Len(data)]

\* Mutant: with several files the policies are swapped.
resolve_version_swapped(list, policy, game_id, mod_id) ==
    CASE list.count = 0 ->
            [file |-> None, error |-> Some(download_version_not_found(game_id, mod_id))]
      [] list.count = 1 -> [file |-> Some(list.data[1]), error |-> None]
      [] policy = "Fail" -> [file |-> Some(list.data[1]), error |-> None]
      [] OTHER ->
            [file |-> None, error |-> Some(download_multiple_files(game_id, mod_id))]

\* The match on (list.count, policy).
resolve_version(list, policy, game_id, mod_id) ==
    CASE list.count = 0 ->
            [file |-> None, error |-> Some(download_version_not_found(game_id, mod_id))]
      [] list.count = 1 -> [file |-> Some(list.data[1]), error |-> None]
      [] policy = "Latest" -> [file |-> Some(list.data[1]), error |-> None]
      [] OTHER ->
            [file |-> None, error |-> Some(download_multiple_files(game_id, mod_id))]

DownloadIdle ==
    /\ dpc = "new"
    /\ dAction = [kind |-> "Url", game_id |-> 5, mod_id |-> 19, file_id |-> 1,
                  policy |-> "Latest"]
    /\ srvFiles = None
    /\ dMeta = <<>>
    /\ dFetched = None
    /\ dGets = <<>>
    /\ dHeaders = <<>>
    /\ dStatus = None
    /\ dLocation = None
    /\ dBodyAll = <<>>
    /\ dBody = <<>>
    /\ dLen = 0
    /\ dRedirect = None
    /\ sink = <<>>
    /\ sinkOwner = "caller"
    /\ dResult = None

\* What no step of a download touches: the client and the other calls.
DownloadFrame == UNCHANGED <<overflowChecks, clientVars, reqVars, streamVars>>

\* Mutant: the streaming GET is built the way the dispatcher builds a request.
FileRequest_with_credentials(self, url) ==
    [url |-> [url EXCEPT !.query = WithApiKey(@, self.credentials)],
     headers |-> [user_agent |-> Some(self.agent),
                  authorization |->
                      IF self.credentials.kind = "Token"
                      THEN Some(<<"Bearer", self.credentials.secret>>)
                      ELSE None]]

\* The request that request_file sends: a GET of the URL as parsed, with the
\* user agent as its only header.
FileRequest(self, url) ==
    [url |-> url,
     headers |-> [user_agent |-> Some(self.agent), authorization |-> None]]

\* request_file(url, out): the URL parses, the GET is sent.
IssueGet(url) ==
    /\ dGets' = Append(dGets, FileRequest(Client, url).url)
    /\ dHeaders' = Append(dHeaders, FileRequest(Client, url).headers)
    /\ dpc' = "get"
    /\ UNCHANGED dResult

\* The download ends with an error: the sink goes down with the future.
Fail(e) ==
    /\ dResult' = Some(e)
    /\ dpc' = "failed"
    /\ sinkOwner' = "dropped"

\* download(action, w) with a Primary, File or Version action: the sink is moved
\* in and the metadata request is sent through the dispatcher.
DownloadResolve ==
    /\ DownloadFrame
    /\ dpc = "new"
    /\ UrlParses(HostUri(Client, <<>>))
    /\ \E a \in DownloadActions :
          /\ a.kind # "Url"
          /\ dAction' = a
          /\ dMeta' = Append(dMeta, IF a.kind = "Version"
                                    THEN [kind |-> a.kind, opts |-> Some(VersionOptions)]
                                    ELSE [kind |-> a.kind, opts |-> None])
    /\ dpc' = "resolving"
    /\ sinkOwner' = "download"
    /\ UNCHANGED <<srvFiles, dFetched, dGets, dHeaders, dStatus, dLocation, dBodyAll, dBody, dLen,
                   dRedirect, sink, dResult>>

\* Mutant: a Url action asks the dispatcher for metadata as well.
DownloadUrl_with_lookup ==
    /\ DownloadFrame
    /\ dpc = "new"
    /\ \E a \in DownloadActions : a.kind = "Url" /\ dAction' = a
    /\ dMeta' = Append(dMeta, [kind |-> "Url", opts |-> None])
    /\ IssueGet(RawUrl)
    /\ sinkOwner' = "download"
    /\ UNCHANGED <<srvFiles, dFetched, dStatus, dLocation, dBodyAll, dBody, dLen, dRedirect, sink>>

\* download(action, w) with a Url action: request_file at once.
DownloadUrl ==
    /\ DownloadFrame
    /\ dpc = "new"
    /\ \E a \in DownloadActions : a.kind = "Url" /\ dAction' = a
    /\ IssueGet(RawUrl)
    /\ sinkOwner' = "download"
    /\ UNCHANGED <<srvFiles, dMeta, dFetched, dStatus, dLocation, dBodyAll, dBody, dLen, dRedirect, sink>>

\* A file record as the service returns it.
FileRecord(f) == [id |-> f, binary_url |-> BinaryUrl(f)]

\* The mod records the service may return: with a primary file or without one.
ModRecords == {[modfile |-> None]} \cup {[modfile |-> Some(FileRecord(f))] : f \in FileIds}

\* Mutant: the error of a mod without primary file carries the ids swapped.
resolve_primary_swapped(m, game_id, mod_id) ==
    IF m.modfile # None
    THEN [file |-> m.modfile, error |-> None]
    ELSE [file |-> None, error |-> Some(download_no_primary(mod_id, game_id))]

\* if let Some(file) = m.modfile { request_file } else { download_no_primary }
resolve_primary(m, game_id, mod_id) ==
    IF m.modfile # None
    THEN [file |-> m.modfile, error |-> None]
    ELSE [file |-> None, error |-> Some(download_no_primary(game_id, mod_id))]

\* Mutant: the streaming GET is issued before the record is looked at.
PrimaryResolved_get_first ==
    /\ DownloadFrame
    /\ dpc = "resolving"
    /\ dAction.kind = "Primary"
    /\ \E m \in ModRecords :
          LET r == resolve_primary(m, dAction.game_id, dAction.mod_id)
          IN  /\ dFetched' = Some(Ok(m))
              /\ dGets' = Append(dGets, RawUrl)
              /\ dHeaders' = Append(dHeaders, FileRequest(Client, RawUrl).headers)
              /\ IF r.file # None
                 THEN dpc' = "get" /\ UNCHANGED <<dResult, sinkOwner>>
                 ELSE Fail(The(r.error))
    /\ UNCHANGED <<dAction, srvFiles, dMeta, dStatus, dLocation, dBodyAll, dBody, dLen,
                   dRedirect, sink>>

\* The mod record arrives: its primary file, if it has one, is streamed.
PrimaryResolved ==
    /\ DownloadFrame
    /\ dpc = "resolving"
    /\ dAction.kind = "Primary"
    /\ \E m \in ModRecords :
          LET r == resolve_primary(m, dAction.game_id, dAction.mod_id)
          IN  /\ dFetched' = Some(Ok(m))
              /\ IF r.file # None
                 THEN IssueGet(The(r.file).binary_url) /\ UNCHANGED sinkOwner
                 ELSE Fail(The(r.error)) /\ UNCHANGED <<dGets, dHeaders>>
    /\ UNCHANGED <<dAction, srvFiles, dMeta, dStatus, dLocation, dBodyAll, dBody, dLen,
                   dRedirect, sink>>

\* The file record arrives and is streamed.
FileResolved ==
    /\ DownloadFrame
    /\ dpc = "resolving"
    /\ dAction.kind = "File"
    /\ dFetched' = Some(Ok(FileRecord(dAction.file_id)))
    /\ IssueGet(FileRecord(dAction.file_id).binary_url)
    /\ UNCHANGED <<dAction, srvFiles, dMeta, dStatus, dLocation, dBodyAll, dBody, dLen,
                   dRedirect, sink, sinkOwner>>

\* The file listing arrives: the match on (count, policy).
VersionResolved ==
    /\ DownloadFrame
    /\ dpc = "resolving"
    /\ dAction.kind = "Version"
    /\ \E files \in SUBSET FileIds :
          LET list == ServerFileList(The(dMeta[1].opts), files)
              r == resolve_version(list, dAction.policy, dAction.game_id,
                                   dAction.mod_id)
          IN  /\ srvFiles' = Some(files)
              /\ dFetched' = Some(Ok(list))
              /\ IF r.file # None
                 THEN IssueGet(BinaryUrl(The(r.file))) /\ UNCHANGED sinkOwner
                 ELSE Fail(The(r.error)) /\ UNCHANGED <<dGets, dHeaders>>
    /\ UNCHANGED <<dAction, dMeta, dStatus, dLocation, dBodyAll, dBody, dLen, dRedirect, sink>>

\* Mutant: for a File action every status error becomes file-not-found.
MetaError_any_status(action, e) ==
    IF action.kind = "File" /\ e.kind = "Status"
    THEN download_file_not_found(action.game_id, action.mod_id, action.file_id)
    ELSE e

\* The error a failed metadata request ends the download with: for a File
\* action a 404 status error becomes the file-not-found download error.
MetaError(action, e) ==
    IF action.kind = "File" /\ e.kind = "Status" /\ e.status = Some(404)
    THEN download_file_not_found(action.game_id, action.mod_id, action.file_id)
    ELSE e

\* download(action, w) with a Primary, File or Version action on a client whose
\* host makes no URL: request() ends with the parse error before anything is
\* sent, and so does the download.
DownloadResolveFails ==
    /\ DownloadFrame
    /\ dpc = "new"
    /\ ~UrlParses(HostUri(Client, <<>>))
    /\ \E a \in DownloadActions :
          /\ a.kind # "Url"
          /\ dAction' = a
          /\ dFetched' = Some(builder("url::ParseError"))
          /\ Fail(MetaError(a, builder("url::ParseError")))
    /\ UNCHANGED <<srvFiles, dMeta, dGets, dHeaders, dStatus, dLocation, dBodyAll, dBody, dLen,
                   dRedirect, sink>>

MetaFails ==
    /\ DownloadFrame
    /\ dpc = "resolving"
    /\ \E e \in FetchErrors(overflowChecks) :
          /\ dFetched' = Some(e)
          /\ Fail(MetaError(dAction, e))
    /\ UNCHANGED <<dAction, srvFiles, dMeta, dGets, dHeaders, dStatus, dLocation, dBodyAll, dBody, dLen,
                   dRedirect, sink>>

(***************************************************************************)
(* Modio::request_file: redirects and the copy of the body into the sink.  *)
(***************************************************************************)
IsRedirect(status) == status \in {301, 302, 307}

\* Mutant: a Location header counts as read whatever its bytes.
ReadLocation_any_bytes(location) ==
    IF location.kind # "absent" THEN Some(location) ELSE None

\* Mutant: the redirect goes back to the raw URL.
RedirectTarget_raw(location) == RawUrl

\* The URL of the next GET: the Location header as it stands.
RedirectTarget(location) == location.url

\* Location as the code reads it: headers().get(LOCATION).and_then(to_str).
ReadLocation(location) ==
    IF location.kind \in {"relative", "absolute"} THEN Some(location) ELSE None

\* The streaming GET cannot be sent or gets no response.
GetFails ==
    /\ DownloadFrame
    /\ dpc = "get"
    /\ Fail(request_error)
    /\ UNCHANGED <<dAction, srvFiles, dMeta, dFetched, dGets, dHeaders, dStatus, dLocation, dBodyAll, dBody, dLen,
                   dRedirect, sink>>

\* Mutant: the second redirect of a chain is refused.
GetRedirected_hop_limit ==
    /\ DownloadFrame
    /\ dpc = "get"
    /\ Len(dGets) <= MaxHops
    /\ \E status \in DlStatuses, location \in Locations(Len(dGets)),
          body \in RedirectBodies :
          /\ IsRedirect(status)
          /\ ReadLocation(location) # None
          /\ dRedirect' = Some([status |-> status, body_len |-> Len(Flatten(body)),
                                 hop |-> Len(dGets), location |-> location])
          /\ IF location.kind = "absolute" /\ Len(dGets) < 2
             THEN IssueGet(RedirectTarget(location)) /\ UNCHANGED sinkOwner
             ELSE Fail(builder("url::ParseError")) /\ UNCHANGED <<dGets, dHeaders>>
    /\ UNCHANGED <<dAction, srvFiles, dMeta, dFetched, dStatus, dLocation, dBodyAll, dBody, dLen, sink>>

\* A 301/302/307 response with a readable Location: request_file again on the
\* target; the body of the redirect response is never read.
GetRedirected ==
    /\ DownloadFrame
    /\ dpc = "get"
    /\ Len(dGets) <= MaxHops
    /\ \E status \in DlStatuses, location \in Locations(Len(dGets)),
          body \in RedirectBodies :
          /\ IsRedirect(status)
          /\ ReadLocation(location) # None
          /\ dRedirect' = Some([status |-> status, body_len |-> Len(Flatten(body)),
                                 hop |-> Len(dGets), location |-> location])
          /\ IF location.kind = "absolute"
             THEN IssueGet(RedirectTarget(location)) /\ UNCHANGED sinkOwner
             ELSE Fail(builder("url::ParseError")) /\ UNCHANGED <<dGets, dHeaders>>
    /\ UNCHANGED <<dAction, srvFiles, dMeta, dFetched, dStatus, dLocation, dBodyAll, dBody, dLen, sink>>

\* Any other response is the terminal one: its body is folded into the sink.
GetTerminal ==
    /\ DownloadFrame
    /\ dpc = "get"
    /\ \E status \in DlStatuses, location \in Locations(Len(dGets)),
          body \in StreamBodies :
          /\ ~(IsRedirect(status) /\ ReadLocation(location) # None)
          /\ dStatus' = Some(status)
          /\ dLocation' = IF IsRedirect(status) THEN Some(location.kind) ELSE None
          /\ dBodyAll' = body
          /\ dBody' = body
    /\ dLen' = 0
    /\ dpc' = "body"
    /\ UNCHANGED <<dAction, srvFiles, dMeta, dFetched, dGets, dHeaders, dRedirect, sink, sinkOwner,
                   dResult>>

\* Mutant: the count is advanced by one per chunk.
CopiedLen_per_chunk(len, chunk) == len + 1

\* The fold's step on a chunk copied whole: n + len.
CopiedLen(len, chunk) == len + Len(chunk)

\* A chunk arrives and io::copy writes all of it to the sink.
CopyChunk ==
    /\ DownloadFrame
    /\ dpc = "body"
    /\ dBody # <<>>
    /\ sink' = sink \o Head(dBody)
    /\ dLen' = CopiedLen(dLen, Head(dBody))
    /\ dBody' = Tail(dBody)
    /\ UNCHANGED <<dpc, dAction, srvFiles, dMeta, dFetched, dGets, dHeaders, dStatus, dLocation, dBodyAll,
                   dRedirect, sinkOwner, dResult>>

\* A chunk arrives and the sink fails during io::copy, having taken only the
\* first k bytes of it.
CopyChunkFails ==
    /\ DownloadFrame
    /\ dpc = "body"
    /\ dBody # <<>>
    /\ \E k \in 0..(Len(Head(dBody)) - 1) : sink' = sink \o SubSeq(Head(dBody), 1, k)
    /\ Fail(with(Error("Io"), "write"))
    /\ UNCHANGED <<dAction, srvFiles, dMeta, dFetched, dGets, dHeaders, dStatus, dLocation, dBodyAll, dBody, dLen,
                   dRedirect>>

\* The body stream fails between two chunks.
BodyFails ==
    /\ DownloadFrame
    /\ dpc = "body"
    /\ dBody # <<>>
    /\ Fail(request_error)
    /\ UNCHANGED <<dAction, srvFiles, dMeta, dFetched, dGets, dHeaders, dStatus, dLocation, dBodyAll, dBody, dLen,
                   dRedirect, sink>>

\* The body has ended: the fold's (len, out) is the result, the sink goes back.
DownloadDone ==
    /\ DownloadFrame
    /\ dpc = "body"
    /\ dBody = <<>>
    /\ dResult' = Some(Ok(dLen))
    /\ dpc' = "done"
    /\ sinkOwner' = "caller"
    /\ UNCHANGED <<dAction, srvFiles, dMeta, dFetched, dGets, dHeaders, dStatus, dLocation, dBodyAll, dBody, dLen,
                   dRedirect, sink>>

\* The caller drops the future of a download in flight.
DownloadCancelled ==
    /\ DownloadFrame
    /\ dpc \in {"resolving", "get", "body"}
    /\ dpc' = "cancelled"
    /\ sinkOwner' = "dropped"
    /\ UNCHANGED <<dAction, srvFiles, dMeta, dFetched, dGets, dHeaders, dStatus, dLocation, dBodyAll, dBody, dLen,
                   dRedirect, sink, dResult>>

DownloadNext ==
    \/ DownloadResolve
    \/ DownloadResolveFails
    \/ DownloadUrl
    \/ PrimaryResolved
    \/ FileResolved
    \/ VersionResolved
    \/ MetaFails
    \/ GetFails
    \/ GetRedirected
    \/ GetTerminal
    \/ CopyChunk
    \/ CopyChunkFails
    \/ BodyFails
    \/ DownloadDone
    \/ DownloadCancelled

(***************************************************************************)
(* The dispatcher as a process: one call at a time.                        *)
(***************************************************************************)
ReqInit ==
    /\ rpc = "idle"
    /\ reqMethod = "GET"
    /\ reqUri = None
    /\ reqSent = None
    /\ reqResp = None
    /\ reqEnvelope = None
    /\ reqOutcome = None

\* An entry point is called and the uri parses: the request is built and sent.
ReqSend ==
    /\ rpc = "idle"
    /\ \E m \in Methods, q \in RequestQueries(Client) :
          LET uri == HostUri(Client, q)
          IN  /\ UrlParses(uri)
              /\ reqMethod' = m
              /\ reqUri' = Some(uri)
              /\ reqSent' = Some(SentRequest(Client, m, uri))
    /\ rpc' = "sent"
    /\ reqResp' = None
    /\ reqEnvelope' = None
    /\ reqOutcome' = None
    /\ UNCHANGED <<overflowChecks, clientVars, streamVars, downloadVars>>

\* An entry point is called and the uri does not parse: the call ends with the
\* parse error and nothing is sent.
ReqRejected ==
    /\ rpc = "idle"
    /\ \E m \in Methods, q \in RequestQueries(Client) :
          LET uri == HostUri(Client, q)
              e == builder("url::ParseError")
          IN  /\ ~UrlParses(uri)
              /\ reqMethod' = m
              /\ reqUri' = Some(uri)
              /\ reqOutcome' = Some(IF m = "DELETE" THEN delete_or_else(e) ELSE e)
    /\ rpc' = "done"
    /\ UNCHANGED <<overflowChecks, clientVars, streamVars, downloadVars, reqSent,
                   reqResp, reqEnvelope>>

ReqRespond ==
    /\ rpc = "sent"
    /\ \E r \in Responses :
          /\ reqResp' = Some(r)
          /\ reqEnvelope' = DecodedEnvelope(r)
          /\ reqOutcome' = Some(Entry(reqMethod, r, overflowChecks))
    /\ rpc' = "done"
    /\ UNCHANGED <<overflowChecks, clientVars, streamVars, downloadVars, reqMethod,
                   reqUri, reqSent>>

ReqTransportFail ==
    /\ rpc = "sent"
    /\ reqOutcome' = Some(request_error)
    /\ rpc' = "done"
    /\ UNCHANGED <<overflowChecks, clientVars, streamVars, downloadVars, reqMethod,
                   reqUri, reqSent, reqResp, reqEnvelope>>

ReqNext == ReqSend \/ ReqRejected \/ ReqRespond \/ ReqTransportFail

InitRequest ==
    /\ overflowChecks \in BOOLEAN
    /\ host \in Hosts
    /\ agent \in Agents
    /\ credentials \in Credentials
    /\ ReqInit
    /\ StreamIdle
    /\ DownloadIdle

SpecRequest == InitRequest /\ [][ReqNext]_vars

InitStream ==
    /\ overflowChecks \in BOOLEAN
    /\ host \in Hosts
    /\ agent \in Agents
    /\ credentials \in Credentials
    /\ ReqInit
    /\ srvTotal \in 0..MaxTotal
    /\ CursorIdle
    /\ DownloadIdle

SpecStream == InitStream /\ [][StreamNext]_vars

\* The queries the caller starts from against that service: none, a filter, and
\* a filter followed by an offset.
PageQueries ==
    {<<>>, << <<"name", "x">> >>, << <<"name", "x">>, <<"_offset", "1">> >>}

\* The pagination cursor against a service that answers with any page.
PagesNext ==
    \/ StreamOpenOn(PageQueries)
    \/ AnyFirstPage
    \/ FetchFails
    \/ PullPop
    \/ PullFetch
    \/ AnyNextPage
    \/ PullEnd

InitPages ==
    /\ overflowChecks \in BOOLEAN
    /\ host = [scheme |-> "https", authority |-> "api.mod.io"]
    /\ agent \in Agents
    /\ credentials \in Credentials
    /\ ReqInit
    /\ StreamIdle
    /\ DownloadIdle

SpecPages == InitPages /\ [][PagesNext]_vars

\* No step of a download does arithmetic that can overflow: one build profile.
InitDownload ==
    /\ overflowChecks = FALSE
    /\ host \in Hosts
    /\ agent \in Agents
    /\ credentials \in Credentials
    /\ ReqInit
    /\ StreamIdle
    /\ DownloadIdle

SpecDownload == InitDownload /\ [][DownloadNext]_vars

\* The fold over the body of the terminal response makes progress: the body
\* stream gives a chunk, an error or its end, and the executor polls the
\* download's future on each of them for as long as the caller keeps it.
BodyStep == CopyChunk \/ CopyChunkFails \/ BodyFails \/ DownloadDone

\* request_file on its own: the downloads of a URL.
FileNext ==
    \/ DownloadUrl
    \/ GetFails
    \/ GetRedirected
    \/ GetTerminal
    \/ CopyChunk
    \/ CopyChunkFails
    \/ BodyFails
    \/ DownloadDone
    \/ DownloadCancelled

SpecFileLive == InitDownload /\ [][FileNext]_vars /\ WF_vars(BodyStep)

(***************************************************************************)
(* The client as a whole: with_credentials, and the calls made on it, one  *)
(* call at a time.                                                         *)
(***************************************************************************)
\* Mutant: the new client is built on the default host.
with_credentials_default_host(self, creds) ==
    [host |-> [scheme |-> "https", authority |-> "api.mod.io"],
     agent |-> self.agent, credentials |-> creds]

\* Modio::with_credentials: host, agent and transport are moved over.
with_credentials(self, creds) ==
    [host |-> self.host, agent |-> self.agent, credentials |-> creds]

\* with_credentials on a client no call has been made on: the calls that follow
\* are made on the value it returns.
WithCredentials ==
    /\ ReqInit
    /\ CursorIdle
    /\ DownloadIdle
    /\ \E c \in Credentials :
          LET new == with_credentials(Client, c)
          IN  /\ host' = new.host
              /\ agent' = new.agent
              /\ credentials' = new.credentials
    /\ UNCHANGED <<overflowChecks, reqVars, streamVars, downloadVars>>

\* A call of an entry point, a pagination stream, a download.
RequestCall == CursorIdle /\ DownloadIdle /\ ReqNext

StreamCall == ReqInit /\ DownloadIdle /\ StreamNext

DownloadCall == ReqInit /\ CursorIdle /\ DownloadNext

ClientNext == WithCredentials \/ RequestCall \/ StreamCall \/ DownloadCall

\* A client built with an API key, as Modio::new is in the crate's examples, and
\* a listing of MaxTotal items.
InitClient ==
    /\ overflowChecks = FALSE
    /\ host \in Hosts
    /\ agent \in Agents
    /\ credentials = [kind |-> "ApiKey", secret |-> "key"]
    /\ ReqInit
    /\ srvTotal = MaxTotal
    /\ CursorIdle
    /\ DownloadIdle

SpecClient == InitClient /\ [][ClientNext]_vars

(***************************************************************************)
(* Claims about the dispatcher, checked under SpecRequest.                 *)
(***************************************************************************)
Finished == rpc = "done" /\ reqResp # None

LastResp == The(reqResp)

LastOutcome == The(reqOutcome)

\* The response says the rate limit is exhausted: remaining-request-count is 0
\* and retry-after-minutes is present with an integer value.
SignalsRateLimit(r) ==
    /\ r.remaining = HeaderInt(U64(0))
    /\ r.retry_after.present
    /\ r.retry_after.integer

\* C4: every non-2xx response with remaining = 0 and retry-after = m minutes is a
\* rate-limit error whose retry-after is exactly m * 60 seconds, whatever the
\* status and the body.
C4_RateLimitSeconds ==
    Finished /\ ~is_success(LastResp.status) /\ SignalsRateLimit(LastResp) =>
        LET p == MulWide(LastResp.retry_after.value, SecondsPerMinute)
        IN  /\ LastOutcome.kind = "RateLimit"
            /\ p.carry = 0
            /\ LastOutcome.retry_after = Some(p.limbs)

\* C5 as stated: every response with status 401 is Unauthorized, whatever its
\* headers and body.
C5_Any401Unauthorized ==
    Finished /\ LastResp.status = 401 => LastOutcome.kind = "Unauthorized"

\* C5 amended: a 401 whose headers do not signal an exhausted rate limit and whose
\* body decodes as an envelope is Unauthorized and carries the envelope's
\* error_ref, whatever the envelope holds; a 401 with those headers is never
\* Unauthorized, and one whose body is no envelope is a decode error (success
\* for delete).
C5_Unauthorized401 ==
    Finished /\ LastResp.status = 401 =>
        /\ (~SignalsRateLimit(LastResp) /\ LastResp.body.kind = "envelope" =>
                /\ LastOutcome.kind = "Unauthorized"
                /\ LastOutcome.error_ref = Some(LastResp.body.envelope.error_ref))
        /\ (SignalsRateLimit(LastResp) => LastOutcome.kind \in {"RateLimit", "Panic"})
        /\ (~SignalsRateLimit(LastResp) /\ LastResp.body.kind # "envelope" =>
                IF reqMethod = "DELETE" THEN LastOutcome.ok
                ELSE LastOutcome.kind = "Decode")

C5_Witness ==
    /\ Finished
    /\ LastResp.status = 401
    /\ LastResp.body.kind = "envelope"
    /\ LastResp.body.envelope.error_ref = TermsRef
    /\ LastResp.body.envelope.errors # <<>>
    /\ LastOutcome.kind = "Unauthorized"

\* C6: when the envelope of a 403 response has error_ref 11051 the error is
\* TermsAcceptanceRequired; with any other error_ref it is the generic status
\* error carrying status 403.
C6_Forbidden ==
    \A e \in reqEnvelope :
        Finished /\ LastResp.status = 403 =>
            IF e.error_ref = TermsRef
            THEN LastOutcome.kind = "TermsAcceptanceRequired"
            ELSE LastOutcome.kind = "Status" /\ LastOutcome.status = Some(403)

C6_Witness ==
    /\ Finished
    /\ LastResp.status = 403
    /\ reqEnvelope # None
    /\ LastResp.body.envelope.error_ref = TermsRef
    /\ LastOutcome.kind = "TermsAcceptanceRequired"

\* C7 as stated: a DELETE answered with a success status and an empty or non-JSON
\* body succeeds, and a DELETE answered 422 with an envelope body is a
\* validation error.
C7_DeleteAsStated ==
    Finished /\ reqMethod = "DELETE" =>
        /\ (is_success(LastResp.status) /\ LastResp.body.kind \in {"empty", "text"} =>
                LastOutcome.ok)
        /\ (LastResp.status = 422 /\ LastResp.body.kind = "envelope" =>
                LastOutcome.kind = "Validation")

\* C7 amended: a DELETE answered with a success status and an empty or non-JSON
\* body succeeds; a DELETE answered 422 with an envelope body is never turned
\* into success, and it is a validation error with the envelope's message and
\* field errors unless the headers signal an exhausted rate limit.
C7_Delete ==
    Finished /\ reqMethod = "DELETE" =>
        /\ (is_success(LastResp.status) /\ LastResp.body.kind \in {"empty", "text"} =>
                LastOutcome.ok)
        /\ (LastResp.status = 422 /\ LastResp.body.kind = "envelope" =>
                /\ ~LastOutcome.ok
                /\ (~SignalsRateLimit(LastResp) =>
                        /\ LastOutcome.kind = "Validation"
                        /\ LastOutcome.message = LastResp.body.envelope.message
                        /\ LastOutcome.errors = LastResp.body.envelope.errors))

C7_Witness ==
    /\ Finished
    /\ reqMethod = "DELETE"
    /\ LastResp.status = 422
    /\ LastResp.body.kind = "envelope"
    /\ LastResp.body.envelope.errors # <<>>
    /\ LastOutcome.kind = "Validation"

\* C18: for a non-2xx response whose envelope the dispatcher decoded, status 422
\* gives a validation error with the envelope's message and field errors; the
\* error's error_ref is the envelope's for 422 and for 401; every status other
\* than 422, 401 and 403 with error_ref 11051 gives the generic status error,
\* which carries the status code, the envelope's error_ref and the envelope as
\* its source.
C18_EnvelopeFields ==
    \A e \in reqEnvelope :
        Finished =>
            /\ (LastResp.status = 422 =>
                    /\ LastOutcome.kind = "Validation"
                    /\ LastOutcome.message = e.message
                    /\ LastOutcome.errors = e.errors
                    /\ LastOutcome.error_ref = Some(e.error_ref))
            /\ (LastResp.status = 401 => LastOutcome.error_ref = Some(e.error_ref))
            /\ (/\ LastResp.status \notin {401, 422}
                 /\ ~(LastResp.status = 403 /\ e.error_ref = TermsRef)
                 => /\ LastOutcome.kind = "Status"
                    /\ LastOutcome.status = Some(LastResp.status)
                    /\ LastOutcome.error_ref = Some(e.error_ref)
                    /\ LastOutcome.source = Some(e))

C18_Witness ==
    /\ Finished
    /\ LastResp.status = 500
    /\ reqEnvelope = Some([message |-> "msg", errors |-> << <<"name", "required">> >>,
                            error_ref |-> TermsRef + 1])
    /\ LastOutcome.kind = "Status"
    /\ LastOutcome.error_ref = Some(TermsRef + 1)

\* The classification by status and body alone: what the dispatcher answers when
\* the rate-limit arm is not taken.
BodyBased(method, r, o) ==
    IF is_success(r.status)
    THEN o.ok \/ o.kind = "Decode"
    ELSE IF r.body.kind = "envelope"
         THEN o.kind \in {"Validation", "Unauthorized", "TermsAcceptanceRequired",
                          "Status"}
         ELSE IF method = "DELETE" THEN o.ok ELSE o.kind = "Decode"

\* C21: the rate-limit arm is taken only for a non-2xx response whose
\* remaining-request-count parses as 0 and whose retry-after-minutes parses as an
\* integer; a 2xx response, remaining = 0 without retry-after, remaining > 0 with
\* retry-after, and a header that is no integer all get the classification by
\* status and body, which is never a rate-limit error.
C21_RateLimitOnly ==
    Finished =>
        /\ (LastOutcome.kind \in {"RateLimit", "Panic"} =>
                ~is_success(LastResp.status) /\ SignalsRateLimit(LastResp))
        /\ (is_success(LastResp.status) \/ ~SignalsRateLimit(LastResp) =>
                BodyBased(reqMethod, LastResp, LastOutcome))

C21_Witness ==
    /\ Finished
    /\ LastResp.status = 429
    /\ LastResp.remaining = HeaderGarbage
    /\ LastResp.retry_after = HeaderInt(U64(1))
    /\ LastResp.body.kind = "envelope"
    /\ LastOutcome.kind = "Status"

\* C26 as stated: a DELETE call ends in success only if the response status was
\* 2xx; a non-2xx response whose body is no error envelope is never a success.
C26_DeleteSuccessOnly2xx ==
    Finished /\ reqMethod = "DELETE" /\ LastOutcome.ok => is_success(LastResp.status)

\* C13: every request the dispatcher has sent carries the credential of the
\* client's kind and no other: under an ApiKey its query is the query of the uri
\* handed in followed by the pair api_key = key, and it has no Authorization
\* header; under a Token its query is the one handed in and its Authorization
\* header is Bearer <token>; no request has both the parameter and the header.
C13_CredentialOfKind ==
    \A r \in reqSent : \A u \in reqUri :
        /\ IF credentials.kind = "ApiKey"
           THEN /\ r.url.query = u.query \o << <<"api_key", credentials.secret>> >>
                /\ r.headers.authorization = None
           ELSE /\ r.url.query = u.query
                /\ r.headers.authorization = Some(<<"Bearer", credentials.secret>>)
        /\ ~("api_key" \in Keys(r.url.query) /\ r.headers.authorization # None)

C13_Witness ==
    /\ rpc = "done"
    /\ credentials.kind = "ApiKey"
    /\ \E r \in reqSent :
          /\ r.method = "POST"
          /\ r.url.query = << <<"name", "x">>, <<"api_key", "key">> >>
          /\ r.headers.authorization = None

(***************************************************************************)
(* Claims about the pagination stream, checked under SpecStream.           *)
(***************************************************************************)
\* The offset the service reads from the query of a page request.
OffsetOf(query) == ServerPage(query, 0).offset

\* The sequence is over: it ended, or the pull aborted.
SequenceOver == spc \in {"done", "panicked"}

\* C1: whatever offset, limit and total the first page reports, a sequence that
\* is over has yielded as many items as the first page's total.
C1_YieldedEqualsTotal ==
    \A fp \in firstPage : SequenceOver => Len(yielded) = fp.total

\* C2: with a first page at offset 0 and full pages of limit L >= 1, the page
\* requests go to the offsets 0, L, 2L, ... in that order, the items come out in
\* the service's order, and a sequence that has ended has yielded all T items
\* with one request per page.
C2_OffsetsAndOrder ==
    \A fp \in firstPage :
        fp.offset = 0 /\ fp.limit >= 1 =>
            /\ \A i \in 1..Len(fetches) : OffsetOf(fetches[i]) = (i - 1) * fp.limit
            /\ \A i \in 1..Len(yielded) : yielded[i] = i
            /\ spc # "panicked"
            /\ (spc = "done" =>
                    /\ Len(yielded) = fp.total
                    /\ Len(fetches) =
                         IF fp.total = 0 THEN 1
                         ELSE (fp.total + fp.limit - 1) \div fp.limit)

C2_Witness ==
    /\ spc = "done"
    /\ firstPage = Some([offset |-> 0, limit |-> 2, total |-> 5])
    /\ Len(fetches) = 3
    /\ OffsetOf(fetches[3]) = 4
    /\ yielded = <<1, 2, 3, 4, 5>>

\* C3: when the first page reports total 0 the sequence is empty and no second
\* page request is ever issued.
C3_EmptyListing ==
    \A fp \in firstPage :
        fp.total = 0 =>
            /\ yielded = <<>>
            /\ Len(fetches) = 1
            /\ spc \in {"ready", "done"}

C3_Witness ==
    /\ spc = "done"
    /\ \E fp \in firstPage : fp.total = 0 /\ fp.offset > 0
    /\ yielded = <<>>
    /\ Len(fetches) = 1

\* C17: when a page request fails, the stream's error is the error the
\* dispatcher ended that request with, it comes up in the step in which the
\* pull awaiting the page ends, and that step neither changes the items yielded
\* nor issues a request; once an error has come up the stream issues no further
\* request, the failed one included, and yields nothing more.
C17_FetchFailure ==
    [][/\ (sError' # sError =>
               /\ sError = None
               /\ sError' \subseteq FetchErrors(overflowChecks)
                                    \cup {builder("url::ParseError")}
               /\ (fetches # <<>> => spc \in {"first", "fetching"})
               /\ fetches' = fetches
               /\ yielded' = yielded)
       /\ (sError # None => UNCHANGED <<fetches, yielded, sError, spc>>)]_vars

C17_Witness ==
    /\ spc = "failed"
    /\ Len(fetches) = 2
    /\ yielded = <<1, 2>>
    /\ \E e \in sError : e.kind = "RateLimit"

\* How often a key stands in a query.
Occurrences(query, key) == Cardinality({i \in 1..Len(query) : query[i][1] = key})

\* C28 as stated: under API-key credentials every page request of a stream, the
\* first and every later one, goes to a URL that holds api_key exactly once.
C28_ApiKeyOnce ==
    credentials.kind = "ApiKey" =>
        \A i \in 1..Len(fetches) : Occurrences(fetches[i], "api_key") = 1

(***************************************************************************)
(* Claims about downloads, checked under SpecDownload.                     *)
(***************************************************************************)
\* The most recently added of the files.
Newest(files) == CHOOSE f \in files : \A g \in files : DateAdded(g) <= DateAdded(f)

FailedWith(e) == dpc = "failed" /\ dResult = Some(e) /\ dGets = <<>>

StreamsFile(f) ==
    /\ dGets # <<>>
    /\ dGets[1] = BinaryUrl(f)
    /\ \A r \in dResult : r.kind # "Download"

\* C8: for a Version action, no matching file gives the version-not-found error
\* under either policy, one matching file is streamed under either policy, two or
\* more give the most recently added one with Latest and the multiple-files
\* error with Fail.
C8_VersionOutcomes ==
    \A files \in srvFiles :
        LET n == Cardinality(files)
        IN  /\ dAction.kind = "Version"
            /\ (n = 0 =>
                  FailedWith(download_version_not_found(dAction.game_id, dAction.mod_id)))
            /\ (n = 1 => \E f \in files : StreamsFile(f))
            /\ (n >= 2 /\ dAction.policy = "Latest" => StreamsFile(Newest(files)))
            /\ (n >= 2 /\ dAction.policy = "Fail" =>
                  FailedWith(download_multiple_files(dAction.game_id, dAction.mod_id)))

C8_Witness ==
    /\ dpc = "done"
    /\ dAction.policy = "Latest"
    /\ \E files \in srvFiles :
          /\ Cardinality(files) >= 2
          /\ \E f \in files : f < Newest(files)
          /\ dGets[1] = BinaryUrl(Newest(files))
    /\ sink # <<>>

\* The download ended with the download error of the given reason and ids, and
\* never issued a streaming GET.
FailedDownload(reason, game_id, mod_id, file_id) ==
    /\ dpc = "failed"
    /\ dGets = <<>>
    /\ \E r \in dResult :
          /\ r.kind = "Download"
          /\ r.source = Some([reason |-> reason, game_id |-> game_id,
                               mod_id |-> mod_id, file_id |-> file_id])

\* C11: for a Primary action whose mod record has been fetched, a record with no
\* primary file ends the download with the no-primary-file download error
\* carrying the action's game and mod, and a record with a primary file makes
\* the first streaming GET go to that file's binary URL.
C11_PrimaryOutcomes ==
    \A r \in dFetched :
        dAction.kind = "Primary" /\ r.ok =>
            LET m == The(r.value)
            IN  IF m.modfile = None
                THEN FailedDownload("NoPrimaryFile", dAction.game_id, dAction.mod_id, 0)
                ELSE /\ dGets # <<>>
                     /\ dGets[1] = The(m.modfile).binary_url
                     /\ \A e \in dResult : e.kind # "Download"

C11_Witness ==
    /\ dAction.kind = "Primary"
    /\ dFetched = Some(Ok([modfile |-> None]))
    /\ FailedDownload("NoPrimaryFile", 5, 19, 0)
    /\ sinkOwner = "dropped"

\* C12: for a File action whose file-record fetch has failed, the download
\* fails without a streaming GET; a status error with status 404 becomes the
\* file-not-found download error carrying the action's game, mod and file, and
\* every other error of the fetch is the download's error as it stands.
C12_FileFetchErrors ==
    \A e \in dFetched :
        dAction.kind = "File" /\ ~e.ok =>
            IF e.kind = "Status" /\ e.status = Some(404)
            THEN FailedDownload("FileNotFound", dAction.game_id, dAction.mod_id,
                                dAction.file_id)
            ELSE dpc = "failed" /\ dGets = <<>> /\ dResult = Some(e)

C12_Witness ==
    /\ dAction.kind = "File"
    /\ \E e \in dFetched : e.kind = "Status" /\ e.status = Some(404)
    /\ FailedDownload("FileNotFound", 5, 19, 1)

\* The URL the action of a download that has issued a GET resolved to.
ResolvedUrl ==
    CASE dAction.kind = "Url" -> RawUrl
      [] dAction.kind = "File" -> BinaryUrl(dAction.file_id)
      [] dAction.kind = "Primary" -> The(The(The(dFetched).value).modfile).binary_url
      [] OTHER -> BinaryUrl(The(The(dFetched).value).data[1])

\* C14: every streaming GET of a download has no Authorization header and no
\* api_key parameter, under either kind of credentials; the first goes to the
\* URL the action resolved to, as it stands, and the GET after a redirect goes
\* to the URL of the Location header, as it stands.
C14_NoInjection ==
    /\ Len(dHeaders) = Len(dGets)
    /\ \A i \in 1..Len(dGets) :
          /\ dHeaders[i].authorization = None
          /\ "api_key" \notin Keys(dGets[i].query)
    /\ (dGets # <<>> => dGets[1] = ResolvedUrl)
    /\ \A r \in dRedirect :
          r.location.kind = "absolute" => dGets[r.hop + 1] = r.location.url

C14_Witness ==
    /\ dpc = "done"
    /\ credentials.kind = "ApiKey"
    /\ dAction.kind = "File"
    /\ Len(dGets) = 2
    /\ dGets[1].query = << <<"verify", "sig">> >>
    /\ \E r \in dRedirect : r.location = [kind |-> "absolute", url |-> dGets[2]]

\* C15: a call whose URL does not parse ends with an error and issues no HTTP
\* exchange.  On a client whose host makes no URL, a download that asks for
\* metadata fails with neither a metadata request nor a streaming GET issued;
\* after a redirect whose Location is a relative reference, the download fails
\* and the GETs issued are those issued before.
C15_MalformedUrl ==
    /\ (host.scheme = "" /\ dAction.kind # "Url" /\ dpc # "new" =>
            /\ dpc = "failed"
            /\ \E e \in dResult : ~e.ok
            /\ dMeta = <<>>
            /\ dGets = <<>>)
    /\ \A r \in dRedirect :
          r.location.kind = "relative" =>
              /\ dpc = "failed"
              /\ \E e \in dResult : ~e.ok
              /\ Len(dGets) = r.hop

C15_Witness ==
    /\ host.scheme = ""
    /\ dAction.kind = "File"
    /\ dpc = "failed"
    /\ dResult = Some(builder("url::ParseError"))
    /\ dMeta = <<>>
    /\ dGets = <<>>

\* C20: a download with a Url action issues no metadata request, at no point:
\* once started, its first streaming GET has been issued, to the URL given, and
\* nothing has gone through the dispatcher.
C20_UrlBypassesLookups ==
    dAction.kind = "Url" /\ dpc # "new" =>
        /\ dMeta = <<>>
        /\ dFetched = None
        /\ dGets # <<>>
        /\ dGets[1] = RawUrl

C20_Witness ==
    /\ dAction.kind = "Url"
    /\ dpc = "done"
    /\ host.scheme = ""
    /\ dMeta = <<>>
    /\ dGets = <<RawUrl>>
    /\ sink # <<>>

\* The total a finished download reports.
ReportedTotal == The(The(dResult).value)

OneRedirect302 ==
    /\ dpc = "done"
    /\ Len(dGets) = 2
    /\ \E r \in dRedirect : r.status = 302

\* C9 as stated: after a 302 with a Location the GET is issued again on the new
\* URL and the reported total is the sum of the bytes of both responses.
C9_SumsBothLegs ==
    OneRedirect302 =>
        /\ dGets[2] = MirrorUrl(1)
        /\ ReportedTotal = The(dRedirect).body_len + Len(Flatten(dBodyAll))

\* C9 amended: after a 302 with a Location the GET is issued again on the new
\* URL, and the reported total is the number of bytes of the terminal response's
\* body, all of them written to the sink: the body of the redirect response is
\* neither written nor counted.
C9_RedirectTotal ==
    OneRedirect302 =>
        /\ dGets[2] = MirrorUrl(1)
        /\ ReportedTotal = Len(Flatten(dBodyAll))
        /\ sink = Flatten(dBodyAll)

C9_Witness ==
    /\ OneRedirect302
    /\ The(dRedirect).body_len > 0
    /\ dStatus = Some(200)
    /\ Len(dBodyAll) = 2
    /\ ReportedTotal = Len(sink)

\* The chunks of the terminal body that have arrived.
Arrived == SubSeq(dBodyAll, 1, Len(dBodyAll) - Len(dBody))

SinkFailed == dpc = "failed" /\ \E r \in dResult : r.kind = "Io"

\* C10 as stated: from the terminal response on, also after a cancellation or an
\* error, the sink holds exactly the chunks that have arrived, in order, and the
\* running count is the number of bytes in the sink; a finished download
\* reports the length of the body and hands the sink back.
C10_WholeChunks ==
    dStatus # None =>
        /\ sink = Flatten(Arrived)
        /\ dLen = Len(sink)
        /\ (dpc = "done" =>
                /\ ReportedTotal = Len(Flatten(dBodyAll))
                /\ sinkOwner = "caller")

\* C10 amended: the same, except after a failed write of the sink: the sink then
\* holds the chunks that arrived before, in order, and the first bytes (fewer
\* than all) of the chunk whose write failed, which the count does not include.
C10_ChunkPrefix ==
    dStatus # None =>
        /\ (~SinkFailed => sink = Flatten(Arrived) /\ dLen = Len(sink))
        /\ (SinkFailed =>
                /\ dLen = Len(Flatten(Arrived))
                /\ dLen <= Len(sink)
                /\ Len(sink) < dLen + Len(Head(dBody))
                /\ sink = SubSeq(Flatten(dBodyAll), 1, Len(sink)))
        /\ (dpc = "done" =>
                /\ ReportedTotal = Len(Flatten(dBodyAll))
                /\ sinkOwner = "caller")

C10_Witness ==
    /\ dpc = "cancelled"
    /\ Len(dBodyAll) = 2
    /\ Len(dBody) = 1
    /\ Len(sink) = 2
    /\ dLen = 2

\* A Location header in visible ASCII: the one kind the code can read.
Readable(kind) == kind \in {"relative", "absolute"}

\* C25: a response to a streaming GET is taken as a redirect (request_file is
\* called on its Location, and its body is left alone) only if its status is 301,
\* 302 or 307 and its Location is readable; it is taken as the terminal response
\* only if its status is another one (its headers are not looked at then) or
\* its Location is absent or unreadable,
\* and then no further GET is issued, the whole body is what the fold is given,
\* and a download that is done has copied all of it into the sink.
C25_RedirectOrTerminal ==
    [][/\ dpc = "get" /\ dRedirect' # dRedirect =>
             /\ IsRedirect(The(dRedirect').status)
             /\ Readable(The(dRedirect').location.kind)
             /\ dStatus' = None
             /\ sink' = sink
       /\ dpc = "get" /\ dStatus' # None =>
             /\ IsRedirect(The(dStatus')) =>
                   dLocation' # None /\ ~Readable(The(dLocation'))
             /\ dRedirect' = dRedirect
             /\ dGets' = dGets
             /\ dpc' = "body"
             /\ dBody' = dBodyAll'
       /\ dpc = "body" /\ dpc' = "done" =>
             sink' = Flatten(dBodyAll) /\ dGets' = dGets]_vars

C25_Witness ==
    /\ dpc = "done"
    /\ dStatus = Some(302)
    /\ dLocation = Some("unreadable")
    /\ Len(dGets) = 1
    /\ sink = <<1, 2>>

\* C29 as stated: a download ends in success, and bytes are written to the
\* sink, only when the terminal response has a success status.
C29_SuccessStatusOnly ==
    \A status \in dStatus :
        (dpc = "done" \/ sink # <<>>) => is_success(status)

\* The download has failed during resolution: its error is a download error, or
\* its metadata request ended with an error.
ResolutionFailed ==
    /\ dpc = "failed"
    /\ \/ \E r \in dResult : r.kind = "Download"
       \/ \E f \in dFetched : ~f.ok

\* C30: when a download has failed during resolution (no primary file, file not
\* found, version not found, multiple files found, or the error of the metadata
\* request, a host that makes no URL included), no streaming GET has been issued,
\* no response to one has been read, and the sink has not been written to.
C30_ResolutionFailure ==
    ResolutionFailed =>
        /\ dGets = <<>>
        /\ dHeaders = <<>>
        /\ dStatus = None
        /\ dRedirect = None
        /\ sink = <<>>
        /\ dLen = 0

C30_Witness ==
    /\ dpc = "failed"
    /\ dAction.kind = "Version"
    /\ dAction.policy = "Fail"
    /\ \E f \in dFetched : f.ok
    /\ srvFiles = Some({1, 3})
    /\ dResult = Some(download_multiple_files(5, 19))
    /\ sinkOwner = "dropped"

(***************************************************************************)
(* Claims about the client as a whole, checked under SpecClient.           *)
(***************************************************************************)
\* C16: a pagination stream and a download have at most one HTTP exchange in
\* flight.  No step issues two exchanges.  A page request is issued only when no
\* page request of the stream awaits its response, and after the first one only
\* by a pull that finds the buffer empty and the remaining-count not zero.  The
\* metadata request is the first exchange of a download; a streaming GET is
\* issued at the start of a download, or in the step in which the metadata
\* request has completed, or in the step in which the redirect response to the
\* previous GET has arrived.
C16_OneExchangeAtATime ==
    [][/\ Len(fetches') <= Len(fetches) + 1
       /\ (fetches' # fetches =>
               /\ spc \in {"new", "ready"}
               /\ (spc = "ready" => sItems = <<>> /\ sCount # 0))
       /\ Len(dMeta') + Len(dGets') <= Len(dMeta) + Len(dGets) + 1
       /\ (dMeta' # dMeta => dpc = "new")
       /\ (dGets' # dGets =>
               \/ dpc = "new"
               \/ dpc = "resolving" /\ dFetched = None /\ \E r \in dFetched' : r.ok
               \/ dpc = "get" /\ \E r \in dRedirect' : r.hop = Len(dGets))]_vars

C16_Witness ==
    /\ spc = "fetching"
    /\ Len(fetches) = 3
    /\ sItems = <<>>
    /\ Len(yielded) = 4

C22_LaterFieldsIgnored ==
    /\ spc = "fetching" =>
          \A p \in AnyPages :
              LET q == [p EXCEPT !.offset = 0, !.limit = 0, !.total = 0]
              IN  p.data # <<>> =>
                      NextState(Cursor, sReqUrl, p) = NextState(Cursor, sReqUrl, q)
    /\ \A fp \in firstPage :
          /\ sCount = fp.total - Len(yielded)
          /\ spc = "done" => sItems = <<>> /\ sCount = 0
          /\ spc = "ready" /\ sItems = <<>> /\ sCount = 0 =>
                ENABLED PullEnd /\ ~ENABLED PullFetch /\ ~ENABLED PullPop

C22_Witness ==
    /\ spc = "done"
    /\ Len(fetches) = 2
    /\ firstPage = Some([offset |-> 0, limit |-> MaxPageField, total |-> 2])
    /\ lastPage = Some([offset |-> MaxPageField, limit |-> 0, total |-> 0])
    /\ yielded = <<1, 1>>

\* C27 as stated: whatever pages the service answers with, the remaining-count
\* is the first page's total less the number of items yielded, it is never below
\* zero (as a u32: it never wraps around), and no pull aborts the program.
C27_CountAndNoAbort ==
    \A fp \in firstPage :
        /\ sCount = fp.total - Len(yielded)
        /\ sCount >= 0
        /\ spc # "panicked"

\* The parameters of a query other than _offset, each with its value.
OtherPairs(query) == {query[i] : i \in {j \in 1..Len(query) : query[j][1] # "_offset"}}

OffsetValues(query) ==
    {query[i][2] : i \in {j \in 1..Len(query) : query[j][1] = "_offset"}}

\* C23: a pull with an empty buffer and a remaining-count above zero fetches the
\* next page; the URL fetched has one _offset, the cursor's offset plus the first
\* page's limit, and otherwise the parameters of the previous request's URL with
\* their values; when the page has arrived the cursor's offset is the previous
\* offset plus the first page's limit.
C23_NextPageUrl ==
    [][\A fp \in firstPage :
          /\ spc = "ready" /\ sItems = <<>> /\ sCount # 0 =>
                /\ spc' = "fetching"
                /\ OffsetValues(sReqUrl') = {ToString(sOffset + fp.limit)}
                /\ OtherPairs(sReqUrl') = OtherPairs(sUri)
                /\ fetches' = Append(fetches, sReqUrl')
          /\ spc = "fetching" /\ spc' = "ready" =>
                sOffset' = sOffset + fp.limit /\ sUri' = sReqUrl]_vars

C23_Witness ==
    /\ spc = "fetching"
    /\ Len(fetches) = 3
    /\ firstPage = Some([offset |-> MaxPageField, limit |-> MaxPageField, total |-> 2])
    /\ lastPage = Some([offset |-> 0, limit |-> 0, total |-> 0])
    /\ credentials.kind = "Token"
    /\ fetches[1] = << <<"name", "x">>, <<"_offset", "1">> >>
    /\ fetches[3] = << <<"_offset", ToString(3 * MaxPageField)>>, <<"name", "x">> >>

(***************************************************************************)
(* Claims about the download resolver that need the body to make           *)
(* progress, checked under SpecFileLive.                                   *)
(***************************************************************************)
\* The redirects followed so far: every GET but the last was answered by one.
Redirects == IF dRedirect = None THEN 0 ELSE The(dRedirect).hop

====
